---- MODULE Spec2Model ----
(***************************************************************************)
(* The XPath extractor (xpath_parser.py), the XPath translator             *)
(* (xpath_translator.py) and the request handlers that drive them          *)
(* (app.py).                                                               *)
(*                                                                         *)
(* A Python str whose characters the code inspects is a sequence of        *)
(* one-character strings: "/a" is <<"/", "a">>.  Labels that the code only *)
(* copies or compares as a whole (type, confidence, location, attribute    *)
(* values of the context) are plain strings.                               *)
(***************************************************************************)
EXTENDS Integers, Sequences, FiniteSets, TLC

(***************************************************************************)
(* Python str primitives.                                                  *)
(***************************************************************************)

\* str.isspace() characters used by strip() and by \s
Whitespace == {" ", "\t", "\n", "\r"}

Digits == {"0", "1", "2", "3", "4", "5", "6", "7", "8", "9"}

DecimalDigits == <<"0","1","2","3","4","5","6","7","8","9">>

LowerLetters == <<"a","b","c","d","e","f","g","h","i","j","k","l","m","n","o","p","q","r","s","t","u","v","w","x","y","z">>

UpperLetters == <<"A","B","C","D","E","F","G","H","I","J","K","L","M","N","O","P","Q","R","S","T","U","V","W","X","Y","Z">>

IsLower(c) == \E i \in 1..Len(LowerLetters) : LowerLetters[i] = c

IsUpper(c) == \E i \in 1..Len(UpperLetters) : UpperLetters[i] = c

lower_char(c) ==
    IF IsUpper(c)
    THEN LowerLetters[CHOOSE i \in 1..Len(UpperLetters) : UpperLetters[i] = c]
    ELSE c

upper_char(c) ==
    IF IsLower(c)
    THEN UpperLetters[CHOOSE i \in 1..Len(LowerLetters) : LowerLetters[i] = c]
    ELSE c

\* s.lower()
lower(s) == [i \in 1..Len(s) |-> lower_char(s[i])]

\* s.capitalize(): first character upper-cased, the rest lower-cased
capitalize(s) == [i \in 1..Len(s) |-> IF i = 1 THEN upper_char(s[i]) ELSE lower_char(s[i])]

\* s.startswith(p)
startswith(s, p) == Len(p) <= Len(s) /\ SubSeq(s, 1, Len(p)) = p

\* s.endswith(p)
endswith(s, p) == Len(p) <= Len(s) /\ SubSeq(s, Len(s) - Len(p) + 1, Len(s)) = p

\* the positions at which sub occurs in s
Occurrences(s, sub) ==
    {i \in 1..(Len(s) - Len(sub) + 1) : SubSeq(s, i, i + Len(sub) - 1) = sub}

\* sub in s
contains(s, sub) == Occurrences(s, sub) # {}

Min(S) == CHOOSE i \in S : \A j \in S : i <= j

Max(S) == CHOOSE i \in S : \A j \in S : j <= i

\* s.count(c) for a one-character c
count(s, c) == Cardinality({i \in 1..Len(s) : s[i] = c})

\* s.lstrip(chars)
lstrip(s, chars) ==
    LET keep == {i \in 1..Len(s) : s[i] \notin chars}
    IN  IF keep = {} THEN <<>> ELSE SubSeq(s, Min(keep), Len(s))

\* s.rstrip(chars)
rstrip(s, chars) ==
    LET keep == {i \in 1..Len(s) : s[i] \notin chars}
    IN  IF keep = {} THEN <<>> ELSE SubSeq(s, 1, Max(keep))

\* s.strip(chars); s.strip() is strip(s, Whitespace)
strip(s, chars) == rstrip(lstrip(s, chars), chars)

\* s.split(sep, 1), sep non-empty
split1(s, sep) ==
    LET occ == Occurrences(s, sep)
    IN  IF occ = {} THEN <<s>>
        ELSE <<SubSeq(s, 1, Min(occ) - 1), SubSeq(s, Min(occ) + Len(sep), Len(s))>>

\* s.split(sep), sep non-empty
RECURSIVE split(_, _)
split(s, sep) ==
    LET occ == Occurrences(s, sep)
    IN  IF occ = {} THEN <<s>>
        ELSE <<SubSeq(s, 1, Min(occ) - 1)>>
             \o split(SubSeq(s, Min(occ) + Len(sep), Len(s)), sep)

\* sep.join(parts)
RECURSIVE join(_, _)
join(sep, parts) ==
    IF parts = <<>> THEN <<>>
    ELSE IF Len(parts) = 1 THEN parts[1]
    ELSE parts[1] \o sep \o join(sep, Tail(parts))

\* [p for p in parts if p]
NonEmpty(parts) == SelectSeq(parts, LAMBDA p : p # <<>>)

\* s.replace(c, r) for a one-character c
RECURSIVE replace(_, _, _)
replace(s, c, r) ==
    IF s = <<>> THEN <<>>
    ELSE (IF Head(s) = c THEN r ELSE <<Head(s)>>) \o replace(Tail(s), c, r)

\* s.isdigit()
isdigit(s) == s # <<>> /\ \A i \in 1..Len(s) : s[i] \in Digits

\* str(i) for a natural number i
RECURSIVE str(_)
str(i) ==
    IF i < 10 THEN <<DecimalDigits[i + 1]>>
    ELSE str(i \div 10) \o <<DecimalDigits[(i % 10) + 1]>>

\* re.sub(r'([a-z])([A-Z])', r'\1 \2', s)
RECURSIVE sub_camel(_)
sub_camel(s) ==
    IF Len(s) < 2 THEN s
    ELSE IF IsLower(s[1]) /\ IsUpper(s[2])
         THEN <<s[1], " ", s[2]>> \o sub_camel(SubSeq(s, 3, Len(s)))
         ELSE <<s[1]>> \o sub_camel(Tail(s))

\* the end (exclusive) of the whitespace run of s that starts at i
RunEnd(s, i) ==
    LET stops == {j \in i..Len(s) : s[j] \notin Whitespace}
    IN  IF stops = {} THEN Len(s) + 1 ELSE Min(stops)

\* whether r'\s+word\s+' (IGNORECASE) matches s at position i
MatchesAt(s, word, i) ==
    /\ i \in 1..Len(s)
    /\ s[i] \in Whitespace
    /\ LET w == RunEnd(s, i)
       IN  /\ w + Len(word) <= Len(s)
           /\ lower(SubSeq(s, w, w + Len(word) - 1)) = word
           /\ s[w + Len(word)] \in Whitespace

\* re.split(r'\s+word\s+', s, flags=re.IGNORECASE), word in lower case
RECURSIVE re_split(_, _)
re_split(s, word) ==
    LET starts == {i \in 1..Len(s) : MatchesAt(s, word, i)}
    IN  IF starts = {} THEN <<s>>
        ELSE LET i == Min(starts)
                 e == RunEnd(s, RunEnd(s, i) + Len(word))
             IN  <<SubSeq(s, 1, i - 1)>> \o re_split(SubSeq(s, e, Len(s)), word)

\* re.search(name + r'\(([^)]+)\)', s): group(1) of the leftmost match,
\* wrapped in a one-element tuple, or the empty tuple when nothing matches
re_search_call(s, name) ==
    LET open == name \o <<"(">>
        ok(i) == /\ i + Len(open) <= Len(s)
                 /\ s[i + Len(open)] # ")"
                 /\ \E j \in (i + Len(open))..Len(s) : s[j] = ")"
        starts == {i \in Occurrences(s, open) : ok(i)}
    IN  IF starts = {} THEN <<>>
        ELSE LET a == Min(starts) + Len(open)
                 close == Min({j \in a..Len(s) : s[j] = ")"})
             IN  <<SubSeq(s, a, close - 1)>>

(***************************************************************************)
(* xpath_translator.py                                                     *)
(***************************************************************************)

\* XPathTranslator.__init__: the two tables, in declaration order
XPathTranslator ==
    [operators |-> <<
        <<<<"=">>, <<"e","q","u","a","l","s">>>>,
        <<<<"!","=">>, <<"d","o","e","s"," ","n","o","t"," ","e","q","u","a","l">>>>,
        <<<<">">>, <<"i","s"," ","g","r","e","a","t","e","r"," ","t","h","a","n">>>>,
        <<<<">","=">>, <<"i","s"," ","g","r","e","a","t","e","r"," ","t","h","a","n"," ","o","r"," ","e","q","u","a","l"," ","t","o">>>>,
        <<<<"<">>, <<"i","s"," ","l","e","s","s"," ","t","h","a","n">>>>,
        <<<<"<","=">>, <<"i","s"," ","l","e","s","s"," ","t","h","a","n"," ","o","r"," ","e","q","u","a","l"," ","t","o">>>>,
        <<<<"a","n","d">>, <<"A","N","D">>>>,
        <<<<"o","r">>, <<"O","R">>>>,
        <<<<"n","o","t">>, <<"N","O","T">>>> >>,
     functions |-> <<
        <<<<"c","o","u","n","t">>, <<"c","o","u","n","t"," ","t","h","e"," ","n","u","m","b","e","r"," ","o","f">>>>,
        <<<<"s","u","m">>, <<"c","a","l","c","u","l","a","t","e"," ","t","h","e"," ","s","u","m"," ","o","f">>>>,
        <<<<"c","o","n","c","a","t">>, <<"c","o","m","b","i","n","e">>>>,
        <<<<"s","u","b","s","t","r","i","n","g">>, <<"e","x","t","r","a","c","t"," ","p","a","r","t"," ","o","f">>>>,
        <<<<"s","t","r","i","n","g">>, <<"c","o","n","v","e","r","t"," ","t","o"," ","t","e","x","t">>>>,
        <<<<"n","u","m","b","e","r">>, <<"c","o","n","v","e","r","t"," ","t","o"," ","n","u","m","b","e","r">>>>,
        <<<<"b","o","o","l","e","a","n">>, <<"c","o","n","v","e","r","t"," ","t","o"," ","t","r","u","e","/","f","a","l","s","e">>>>,
        <<<<"c","o","n","t","a","i","n","s">>, <<"c","o","n","t","a","i","n","s">>>>,
        <<<<"s","t","a","r","t","s","-","w","i","t","h">>, <<"s","t","a","r","t","s"," ","w","i","t","h">>>>,
        <<<<"s","t","r","i","n","g","-","l","e","n","g","t","h">>, <<"g","e","t"," ","t","h","e"," ","l","e","n","g","t","h"," ","o","f">>>>,
        <<<<"n","o","r","m","a","l","i","z","e","-","s","p","a","c","e">>, <<"r","e","m","o","v","e"," ","e","x","t","r","a"," ","s","p","a","c","e","s"," ","f","r","o","m">>>>,
        <<<<"t","r","a","n","s","l","a","t","e">>, <<"r","e","p","l","a","c","e"," ","c","h","a","r","a","c","t","e","r","s"," ","i","n">>>>,
        <<<<"u","p","p","e","r","-","c","a","s","e">>, <<"c","o","n","v","e","r","t"," ","t","o"," ","u","p","p","e","r","c","a","s","e">>>>,
        <<<<"l","o","w","e","r","-","c","a","s","e">>, <<"c","o","n","v","e","r","t"," ","t","o"," ","l","o","w","e","r","c","a","s","e">>>> >>]

\* None, as an argument or a value
None == [None |-> TRUE]

\* dict.get(key, default)
get(dict, key, default) == IF key \in DOMAIN dict THEN dict[key] ELSE default

\* in place of the str a call would have returned: an exception left the call
RaisedStr == <<"raise">>

\* in place of the dict a call would have returned: an exception left the call
Raised == [raised |-> TRUE]

\* the frames a chain of recursive calls may use before RecursionError
RecursionLimit == 3

\* _determine_type with the test for a condition ahead of the test for '$'
_determine_type_condition_first(self, xpath) ==
    IF \E op \in {<<"=">>, <<"!","=">>, <<">">>, <<"<">>, <<" ","a","n","d"," ">>, <<" ","o","r"," ">>} : contains(xpath, op)
    THEN "condition"
    ELSE IF startswith(xpath, <<"$">>) THEN "variable"
    ELSE IF \E i \in 1..Len(self.functions) :
                contains(xpath, self.functions[i][1] \o <<"(">>)
         THEN "function"
    ELSE "selection"

_determine_type(self, xpath) ==
    IF startswith(xpath, <<"$">>) THEN "variable"
    ELSE IF \E op \in {<<"=">>, <<"!","=">>, <<">">>, <<"<">>, <<" ","a","n","d"," ">>, <<" ","o","r"," ">>} : contains(xpath, op)
         THEN "condition"
    ELSE IF \E i \in 1..Len(self.functions) :
                contains(xpath, self.functions[i][1] \o <<"(">>)
         THEN "function"
    ELSE "selection"

\* _humanize_name: name.split(':', 1)[1] when name has a ':'
drop_prefix(name) == IF contains(name, <<":">>) THEN split1(name, <<":">>)[2] ELSE name

\* _humanize_name: return name if name else 'unknown'
or_unknown(name) == IF name # <<>> THEN name ELSE <<"u","n","k","n","o","w","n">>

_humanize_name(self, name) ==
    or_unknown(strip(lower(replace(replace(sub_camel(drop_prefix(name)),
                                           "_", <<" ">>), "-", <<" ">>)),
                     Whitespace))

\* _translate_operand after operand = operand.strip()
operand_text(self, operand) ==
    IF \/ startswith(operand, <<"'">>) /\ endswith(operand, <<"'">>)
       \/ startswith(operand, <<"\"">>) /\ endswith(operand, <<"\"">>)
    THEN strip(operand, {"'", "\""})
    ELSE IF isdigit(replace(operand, ".", <<>>)) THEN operand
    ELSE IF startswith(operand, <<"$">>)
         THEN <<"v","a","r","i","a","b","l","e"," ">> \o SubSeq(operand, 2, Len(operand))
    ELSE _humanize_name(self, operand)

_translate_operand(self, operand) == operand_text(self, strip(operand, Whitespace))

\* _translate_condition: the first entry of the operator table whose key occurs in
\* xpath and splits it in two, 0 when there is none
first_operator(self, xpath) ==
    LET found == {i \in 1..Len(self.operators) :
                     /\ contains(xpath, self.operators[i][1])
                     /\ Len(split1(xpath, self.operators[i][1])) = 2}
    IN  IF found = {} THEN 0 ELSE Min(found)

\* _translate_condition: f"Check if {left} {op_text} {right}"
check_if(self, op_text, parts) ==
    <<"C","h","e","c","k"," ","i","f"," ">> \o _translate_operand(self, strip(parts[1], Whitespace))
    \o <<" ">> \o op_text \o <<" ">>
    \o _translate_operand(self, strip(parts[2], Whitespace))

\* _translate_condition: sep.join(translated), unless a recursive call raised
join_translated(sep, translated) ==
    IF \E k \in 1..Len(translated) : translated[k] = RaisedStr THEN RaisedStr
    ELSE join(sep, translated)

\* _translate_condition at recursion depth `depth`
RECURSIVE translate_condition_at(_, _, _, _)

\* _translate_condition: [self._translate_condition(c.strip(), context) for c in conditions]
translate_all(self, conditions, context, depth) ==
    [k \in 1..Len(conditions) |->
        translate_condition_at(self, strip(conditions[k], Whitespace), context, depth)]

\* _translate_condition, given the table entry the loop over the operators stops at
condition_text(self, xpath, context, depth, i) ==
    IF i > 0
    THEN check_if(self, self.operators[i][2], split1(xpath, self.operators[i][1]))
    ELSE IF contains(lower(xpath), <<" ","a","n","d"," ">>)
    THEN join_translated(<<" ","A","N","D"," ">>,
                         translate_all(self, re_split(xpath, <<"a","n","d">>), context, depth + 1))
    ELSE IF contains(lower(xpath), <<" ","o","r"," ">>)
    THEN join_translated(<<" ","O","R"," ">>,
                         translate_all(self, re_split(xpath, <<"o","r">>), context, depth + 1))
    ELSE <<"E","v","a","l","u","a","t","e"," ","c","o","n","d","i","t","i","o","n",":"," ">> \o xpath

translate_condition_at(self, xpath, context, depth) ==
    IF depth > RecursionLimit THEN RaisedStr
    ELSE condition_text(self, xpath, context, depth, first_operator(self, xpath))

_translate_condition(self, xpath, context) ==
    translate_condition_at(self, xpath, context, 1)

\* _translate_function: a.strip().strip("'\"")
unquote(a) == strip(strip(a, Whitespace), {"'", "\""})

\* _translate_function: [a.strip().strip("'\"") for a in parts]
unquote_all(parts) == [k \in 1..Len(parts) |-> unquote(parts[k])]

\* _translate_function: f"Check if {arg_parts[0]} {func_desc} '{arg_parts[1]}'"
check_if_call(func_desc, arg_parts) ==
    <<"C","h","e","c","k"," ","i","f"," ">> \o arg_parts[1] \o <<" ">> \o func_desc \o <<" ","'">> \o arg_parts[2] \o <<"'">>

\* the loop of _translate_function from table entry i on
RECURSIVE translate_function_from(_, _, _)

\* _translate_function: the branch for contains and starts-with
two_argument_text(self, xpath, i, func_desc, arg_parts) ==
    IF Len(arg_parts) = 2 THEN check_if_call(func_desc, arg_parts)
    ELSE translate_function_from(self, xpath, i + 1)

\* matched_text with the raw argument text in place of the humanized one
matched_text_raw(self, xpath, i, func_name, func_desc, args) ==
    IF func_name \in {<<"c","o","u","n","t">>, <<"s","u","m">>, <<"s","t","r","i","n","g","-","l","e","n","g","t","h">>}
    THEN capitalize(func_desc) \o <<" ">> \o args
    ELSE IF func_name = <<"c","o","n","c","a","t">>
    THEN <<"C","o","m","b","i","n","e",":"," ">> \o join(<<" ","+"," ">>, unquote_all(split(args, <<",">>)))
    ELSE IF func_name = <<"s","u","b","s","t","r","i","n","g">>
    THEN <<"E","x","t","r","a","c","t"," ","p","a","r","t"," ","o","f"," ">> \o args
    ELSE IF func_name \in {<<"c","o","n","t","a","i","n","s">>, <<"s","t","a","r","t","s","-","w","i","t","h">>}
    THEN two_argument_text(self, xpath, i, func_desc, unquote_all(split1(args, <<",">>)))
    ELSE capitalize(func_desc) \o <<" ">> \o args

\* _translate_function: the body of `if match:` for table entry i
matched_text(self, xpath, i, func_name, func_desc, args) ==
    IF func_name \in {<<"c","o","u","n","t">>, <<"s","u","m">>, <<"s","t","r","i","n","g","-","l","e","n","g","t","h">>}
    THEN capitalize(func_desc) \o <<" ">> \o _humanize_name(self, args)
    ELSE IF func_name = <<"c","o","n","c","a","t">>
    THEN <<"C","o","m","b","i","n","e",":"," ">> \o join(<<" ","+"," ">>, unquote_all(split(args, <<",">>)))
    ELSE IF func_name = <<"s","u","b","s","t","r","i","n","g">>
    THEN <<"E","x","t","r","a","c","t"," ","p","a","r","t"," ","o","f"," ">> \o _humanize_name(self, args)
    ELSE IF func_name \in {<<"c","o","n","t","a","i","n","s">>, <<"s","t","a","r","t","s","-","w","i","t","h">>}
    THEN two_argument_text(self, xpath, i, func_desc, unquote_all(split1(args, <<",">>)))
    ELSE capitalize(func_desc) \o <<" ">> \o _humanize_name(self, args)

\* _translate_function: one iteration of the loop, given re.search's result
function_text(self, xpath, i, match) ==
    IF match = <<>> THEN translate_function_from(self, xpath, i + 1)
    ELSE matched_text(self, xpath, i, self.functions[i][1], self.functions[i][2], match[1])

translate_function_from(self, xpath, i) ==
    IF i > Len(self.functions) THEN <<"A","p","p","l","y"," ","f","u","n","c","t","i","o","n",":"," ">> \o xpath
    ELSE function_text(self, xpath, i, re_search_call(xpath, self.functions[i][1]))

_translate_function(self, xpath, context) == translate_function_from(self, xpath, 1)

\* [self._humanize_name(p) for p in parts]
humanize_all(self, parts) == [k \in 1..Len(parts) |-> _humanize_name(self, parts[k])]

\* _translate_variable: the branch for a var_name with a '/', parts = var_name.split('/')
variable_path(self, parts) ==
    <<"G","e","t"," ">> \o join(<<" ","→"," ">>, humanize_all(self, Tail(parts)))
    \o <<" ","f","r","o","m"," ","v","a","r","i","a","b","l","e"," ","'">> \o parts[1] \o <<"'">>

\* _translate_variable after var_name = xpath.lstrip('$')
variable_text(self, var_name) ==
    IF contains(var_name, <<"/">>) THEN variable_path(self, split(var_name, <<"/">>))
    ELSE <<"U","s","e"," ","t","h","e"," ","v","a","l","u","e"," ","o","f"," ","v","a","r","i","a","b","l","e"," ","'">> \o var_name \o <<"'">>

_translate_variable(self, xpath, context) == variable_text(self, lstrip(xpath, {"$"}))

_translate_generic(self, xpath, context) ==
    <<"X","P","a","t","h"," ","e","x","p","r","e","s","s","i","o","n",":"," ">> \o _humanize_name(self, xpath)

_translate_predicate(self, predicate) ==
    IF isdigit(predicate) THEN <<"p","o","s","i","t","i","o","n"," ">> \o predicate
    ELSE IF predicate = <<"l","a","s","t","(",")">> THEN <<"t","h","e"," ","l","a","s","t"," ","i","t","e","m">>
    ELSE IF \E i \in 1..Len(self.operators) : contains(predicate, self.operators[i][1])
         THEN _translate_condition(self, predicate, <<>>)
    ELSE predicate

\* _translate_selection: f"{humanized base} where {translated predicate}"
where_text(base, predicate) ==
    IF predicate = RaisedStr THEN RaisedStr ELSE base \o <<" ","w","h","e","r","e"," ">> \o predicate

\* _translate_selection: base, predicate = part.split('[', 1), a ValueError unless
\* the split gives two parts
predicate_part(self, unpack) ==
    IF Len(unpack) # 2 THEN RaisedStr
    ELSE where_text(_humanize_name(self, unpack[1]),
                    _translate_predicate(self, rstrip(unpack[2], {"]"})))

\* readable_part with part.split('[') in place of part.split('[', 1): a part
\* with two '[' no longer unpacks into base and predicate
readable_part_split_all(self, part) ==
    IF contains(part, <<"[">>) THEN predicate_part(self, split(part, <<"[">>))
    ELSE IF startswith(part, <<"@">>)
         THEN <<"t","h","e"," ">> \o _humanize_name(self, SubSeq(part, 2, Len(part))) \o <<" ","a","t","t","r","i","b","u","t","e">>
    ELSE IF part = <<"t","e","x","t","(",")">> THEN <<"t","h","e"," ","t","e","x","t"," ","c","o","n","t","e","n","t">>
    ELSE _humanize_name(self, part)

\* _translate_selection: one iteration of the loop over parts
readable_part(self, part) ==
    IF contains(part, <<"[">>) THEN predicate_part(self, split1(part, <<"[">>))
    ELSE IF startswith(part, <<"@">>)
         THEN <<"t","h","e"," ">> \o _humanize_name(self, SubSeq(part, 2, Len(part))) \o <<" ","a","t","t","r","i","b","u","t","e">>
    ELSE IF part = <<"t","e","x","t","(",")">> THEN <<"t","h","e"," ","t","e","x","t"," ","c","o","n","t","e","n","t">>
    ELSE _humanize_name(self, part)

\* _translate_selection: the final description
selection_text(readable_parts) ==
    IF \E k \in 1..Len(readable_parts) : readable_parts[k] = RaisedStr THEN RaisedStr
    ELSE IF Len(readable_parts) = 1 THEN <<"S","e","l","e","c","t"," ">> \o readable_parts[1]
    ELSE <<"N","a","v","i","g","a","t","e"," ","t","o",":"," ">> \o join(<<" ","→"," ">>, readable_parts)

\* _translate_selection after parts = [p for p in path.split('/') if p]
selection_of(self, parts) ==
    IF parts = <<>> THEN <<"S","e","l","e","c","t"," ","t","h","e"," ","r","o","o","t"," ","e","l","e","m","e","n","t">>
    ELSE selection_text([k \in 1..Len(parts) |-> readable_part(self, parts[k])])

_translate_selection(self, xpath, context) ==
    selection_of(self, NonEmpty(split(lstrip(xpath, {"/"}), <<"/">>)))

\* _generate_steps: the step of the i-th part, whose text starts with head
step_text(self, head, part) ==
    IF startswith(part, <<"@">>)
    THEN head \o <<"A","c","c","e","s","s"," ","t","h","e"," ">> \o _humanize_name(self, SubSeq(part, 2, Len(part)))
         \o <<" ","a","t","t","r","i","b","u","t","e">>
    ELSE IF contains(part, <<"[">>)
    THEN head \o <<"S","e","l","e","c","t"," ">> \o _humanize_name(self, split(part, <<"[">>)[1])
         \o <<" ","w","i","t","h"," ","s","p","e","c","i","f","i","c"," ","c","r","i","t","e","r","i","a">>
    ELSE head \o <<"N","a","v","i","g","a","t","e"," ","t","o"," ">> \o _humanize_name(self, part)

\* _generate_steps: the loop over enumerate(parts, 1)
steps_of(self, parts) ==
    [i \in 1..Len(parts) |-> step_text(self, <<"S","t","e","p"," ">> \o str(i) \o <<":"," ">>, parts[i])]

\* _generate_steps with xpath.split('/') unfiltered: empty segments become steps
_generate_steps_unfiltered(self, xpath, context) ==
    IF contains(xpath, <<"/">>) /\ ~startswith(xpath, <<"$">>)
    THEN steps_of(self, split(xpath, <<"/">>))
    ELSE <<>>

_generate_steps(self, xpath, context) ==
    IF contains(xpath, <<"/">>) /\ ~startswith(xpath, <<"$">>)
    THEN steps_of(self, NonEmpty(split(xpath, <<"/">>)))
    ELSE <<>>

\* _calculate_confidence with count('/') < 2 in place of count('/') <= 2
_calculate_confidence_strict(self, xpath) ==
    IF /\ count(xpath, "/") < 2
       /\ ~contains(xpath, <<"[">>)
       /\ ~\E i \in 1..Len(self.operators) : contains(xpath, self.operators[i][1])
    THEN "high"
    ELSE IF count(xpath, "[") > 2 \/ count(xpath, "(") > 3 THEN "low"
    ELSE "medium"

_calculate_confidence(self, xpath) ==
    IF /\ count(xpath, "/") <= 2
       /\ ~contains(xpath, <<"[">>)
       /\ ~\E i \in 1..Len(self.operators) : contains(xpath, self.operators[i][1])
    THEN "high"
    ELSE IF count(xpath, "[") > 2 \/ count(xpath, "(") > 3 THEN "low"
    ELSE "medium"

_extract_data_flow(self, xpath, context) ==
    [source |-> get(context, "source", "Unknown"),
     target |-> get(context, "target", "Unknown"),
     operation |-> _determine_type(self, xpath)]

\* translate: the description for an expression of type expr_type
describe(self, expr_type, xpath, context) ==
    IF expr_type = "selection" THEN _translate_selection(self, xpath, context)
    ELSE IF expr_type = "condition" THEN _translate_condition(self, xpath, context)
    ELSE IF expr_type = "function" THEN _translate_function(self, xpath, context)
    ELSE IF expr_type = "variable" THEN _translate_variable(self, xpath, context)
    ELSE _translate_generic(self, xpath, context)

\* translate: the dict returned, or Raised when computing the description raised
result(description, steps, confidence, expr_type, data_flow) ==
    IF description = RaisedStr THEN Raised
    ELSE [description |-> description,
          steps |-> steps,
          confidence |-> confidence,
          type |-> expr_type,
          data_flow |-> data_flow]

\* translate after expr_type = self._determine_type(xpath)
translate_typed(self, expr_type, xpath, context) ==
    result(describe(self, expr_type, xpath, context),
           _generate_steps(self, xpath, context),
           _calculate_confidence(self, xpath),
           expr_type,
           _extract_data_flow(self, xpath, context))

\* translate after context = context or {} and xpath = xpath.strip()
translate_stripped(self, xpath, context) ==
    translate_typed(self, _determine_type(self, xpath), xpath, context)

\* XPathTranslator.translate; Raised when an exception leaves the call
translate(self, xpath, context) ==
    translate_stripped(self, strip(xpath, Whitespace),
                       IF context = None \/ context = <<>> THEN <<>> ELSE context)

\* call_translate for a translate that consumes the operator table as it scans it
\* (self.operators.pop in place of a read)
call_translate_consuming(self, xpath, context) ==
    [self |-> [self EXCEPT !.operators = Tail(self.operators)],
     context |-> context,
     value |-> translate(self, xpath, context)]

\* a call translator.translate(xpath, context) as its caller sees it: the instance
\* and the caller's mapping after the call (no statement of translate or of the
\* methods it calls assigns to self.operators, self.functions or an item of
\* context), and the value returned
call_translate(self, xpath, context) ==
    [self |-> self, context |-> context, value |-> translate(self, xpath, context)]

(***************************************************************************)
(* xpath_parser.py.  A parsed document is the sequence of its elements in  *)
(* document order, the root first; an element is a record of its tag, its  *)
(* attributes and its text (no text field when its text is None).          *)
(***************************************************************************)

\* XPathParser.__init__
XPathParser ==
    [namespaces |-> [bw |-> "http://www.tibco.com/xmlns/bw/process/2003",
                     xsl |-> "http://www.w3.org/1999/XSL/Transform",
                     tibco |-> "http://www.tibco.com/xmlns/aemeta/services/2002"]]

\* element.text is neither None nor empty
truthy_text(element) == "text" \in DOMAIN element /\ element.text # <<>>

\* root.findall('.//tag'): the descendants of the root with that tag, in document order
findall(root, tag) == SelectSeq(Tail(root), LAMBDA el : el.tag = tag)

xpath_indicators ==
    <<<<"/">>, <<"@">>, <<"[">>, <<"]">>, <<"t","e","x","t","(",")">>, <<"n","o","d","e","(",")">>, <<"a","n","c","e","s","t","o","r",":",":">>, <<"c","h","i","l","d",":",":">>,
      <<"p","a","r","e","n","t",":",":">>, <<"f","o","l","l","o","w","i","n","g",":",":">>, <<"p","r","e","c","e","d","i","n","g",":",":">>, <<"c","o","u","n","t","(">>, <<"s","u","m","(">>, <<"c","o","n","c","a","t","(">>,
      <<"s","u","b","s","t","r","i","n","g","(">>, <<"s","t","r","i","n","g","(">>, <<"$">>>>

_is_xpath(self, text) ==
    IF text = <<>> \/ Len(text) < 3 THEN FALSE
    ELSE \E k \in 1..Len(xpath_indicators) : contains(text, xpath_indicators[k])

_extract_context(self, element) ==
    LET context == [source |-> get(element.attrib, "source", ""),
                    target |-> get(element.attrib, "target", ""),
                    type |-> get(element.attrib, "type", "mapping")]
        schema_ref == get(element.attrib, "schemaRef", "")
    IN  IF schema_ref # "" THEN context @@ [schema |-> schema_ref] ELSE context

_extract_metadata(self, root) ==
    LET descs == findall(root, "description")
        vars_ == findall(root, "processVariables")
        named == SelectSeq(vars_, LAMBDA v : get(v.attrib, "name", "") # "")
    IN  [process_name |-> get(root[1].attrib, "name", "Unknown"),
         description |-> IF descs # <<>> /\ truthy_text(descs[1])
                         THEN strip(descs[1].text, Whitespace) ELSE <<>>,
         variables |-> [k \in 1..Len(named) |->
                          [name |-> named[k].attrib["name"],
                           type |-> get(named[k].attrib, "type", "")]],
         schemas |-> <<>>]

\* str(uuid.uuid4()) for the n-th record of a pass: a token no other record has
uuid4(n) == n

\* the loop over root.findall('.//mapping')
RECURSIVE extract_mappers(_, _, _)
extract_mappers(self, els, xpaths) ==
    IF els = <<>> THEN xpaths
    ELSE LET mapper == Head(els)
             xpath_expr == get(mapper.attrib, "expression", <<>>)
         IN  extract_mappers(self, Tail(els),
               IF xpath_expr # <<>> /\ _is_xpath(self, xpath_expr)
               THEN Append(xpaths, [id |-> uuid4(Len(xpaths) + 1),
                                    expression |-> xpath_expr,
                                    location |-> "Mapper",
                                    activity |-> get(mapper.attrib, "target", "Unknown"),
                                    context |-> _extract_context(self, mapper)])
               ELSE xpaths)

\* the loop over root.findall('.//transition')
RECURSIVE extract_transitions(_, _, _)
extract_transitions(self, els, xpaths) ==
    IF els = <<>> THEN xpaths
    ELSE LET transition == Head(els)
             condition == get(transition.attrib, "condition", <<>>)
         IN  extract_transitions(self, Tail(els),
               IF condition # <<>> /\ _is_xpath(self, condition)
               THEN Append(xpaths, [id |-> uuid4(Len(xpaths) + 1),
                                    expression |-> condition,
                                    location |-> "Transition Condition",
                                    activity |-> get(transition.attrib, "to", "Unknown"),
                                    context |-> [type |-> "condition"]])
               ELSE xpaths)

\* the loop over root.findall('.//config')
RECURSIVE extract_configs(_, _, _)
extract_configs(self, els, xpaths) ==
    IF els = <<>> THEN xpaths
    ELSE LET activity == Head(els)
         IN  extract_configs(self, Tail(els),
               IF /\ truthy_text(activity)
                  /\ _is_xpath(self, strip(activity.text, Whitespace))
               THEN Append(xpaths, [id |-> uuid4(Len(xpaths) + 1),
                                    expression |-> strip(activity.text, Whitespace),
                                    location |-> "Activity Configuration",
                                    activity |-> get(activity.attrib, "name", "Unknown"),
                                    context |-> <<>>])
               ELSE xpaths)

\* extract_text without the test for an expression already in the list
RECURSIVE extract_text_all(_, _, _)
extract_text_all(self, els, xpaths) ==
    IF els = <<>> THEN xpaths
    ELSE LET elem == Head(els)
         IN  extract_text_all(self, Tail(els),
               IF /\ truthy_text(elem)
                  /\ _is_xpath(self, strip(elem.text, Whitespace))
               THEN Append(xpaths, [id |-> uuid4(Len(xpaths) + 1),
                                    expression |-> strip(elem.text, Whitespace),
                                    location |-> elem.tag,
                                    activity |-> get(elem.attrib, "name", "Unknown"),
                                    context |-> <<>>])
               ELSE xpaths)

\* extract_text with a duplicate test on the pair of expression and location
RECURSIVE extract_text_by_location(_, _, _)
extract_text_by_location(self, els, xpaths) ==
    IF els = <<>> THEN xpaths
    ELSE LET elem == Head(els)
         IN  extract_text_by_location(self, Tail(els),
               IF /\ truthy_text(elem)
                  /\ _is_xpath(self, strip(elem.text, Whitespace))
                  /\ ~\E k \in 1..Len(xpaths) :
                        /\ xpaths[k].expression = strip(elem.text, Whitespace)
                        /\ xpaths[k].location = elem.tag
               THEN Append(xpaths, [id |-> uuid4(Len(xpaths) + 1),
                                    expression |-> strip(elem.text, Whitespace),
                                    location |-> elem.tag,
                                    activity |-> get(elem.attrib, "name", "Unknown"),
                                    context |-> <<>>])
               ELSE xpaths)

\* the loop over root.iter()
RECURSIVE extract_text(_, _, _)
extract_text(self, els, xpaths) ==
    IF els = <<>> THEN xpaths
    ELSE LET elem == Head(els)
         IN  extract_text(self, Tail(els),
               IF /\ truthy_text(elem)
                  /\ _is_xpath(self, strip(elem.text, Whitespace))
                  /\ ~\E k \in 1..Len(xpaths) :
                        xpaths[k].expression = strip(elem.text, Whitespace)
               THEN Append(xpaths, [id |-> uuid4(Len(xpaths) + 1),
                                    expression |-> strip(elem.text, Whitespace),
                                    location |-> elem.tag,
                                    activity |-> get(elem.attrib, "name", "Unknown"),
                                    context |-> <<>>])
               ELSE xpaths)

_extract_xpaths(self, root) ==
    extract_text(self, root,
      extract_configs(self, findall(root, "config"),
        extract_transitions(self, findall(root, "transition"),
          extract_mappers(self, findall(root, "mapping"), <<>>))))

\* a file whose content is the well-formed document with these elements
File(elements) == [wellformed |-> TRUE, elements |-> elements]

\* a file whose content is not well-formed XML
Malformed == [wellformed |-> FALSE]

\* XPathParser.parse_file on that file; Raised is the ValueError it raises on
\* ET.ParseError
parse_file(self, file) ==
    IF ~file.wellformed THEN Raised
    ELSE [metadata |-> _extract_metadata(self, file.elements),
          xpaths |-> _extract_xpaths(self, file.elements)]


(***************************************************************************)
(* app.py: the module singletons and the handlers that call them.  The     *)
(* upload folder is outside the model: a parse request carries the content *)
(* of the file its file_id names.                                          *)
(***************************************************************************)

VARIABLES
    translator,   \* app.translator, the shared XPathTranslator instance
    parser,       \* app.parser, the shared XPathParser instance
    pc,           \* "idle", "request" (a handler is about to run) or "response"
    request,      \* the request being served, None when idle
    returned,     \* the calls of translator.translate the handler made, in order
    parsed,       \* what parser.parse_file returned to the handler, None if not called
    response      \* the handler's response, None until it returns

vars == <<translator, parser, pc, request, returned, parsed, response>>

\* the longest generated expression
MaxLen == 3

\* the most items of a generated batch
MaxBatch == 3

\* the most elements of a generated document, the root included
MaxElems == 3

Alphabet == {"$", "/", "=", "[", "@", " ", "a"}

Generated == UNION {[1..k -> Alphabet] : k \in 0..MaxLen}

Samples ==
    {<<"$","o","r","d","e","r","D","a","t","a","/","O","r","d","e","r","/","T","o","t","a","l","A","m","o","u","n","t"," ",">"," ","1","0","0","0">>, <<"c","o","u","n","t","(","/","/","I","t","e","m","s","/","I","t","e","m",")">>,
     <<"/","/","O","r","d","e","r","/","C","u","s","t","o","m","e","r","/","@","i","d">>, <<"/","s","t","o","r","e","/","n","a","m","e">>, <<"/","I","t","e","m","s","/","I","t","e","m">>, <<"a","/","b"," ","="," ","1">>,
     <<"/","a","[","1","]","[","2","]","/","b">>, <<"/","a","[","1","]","[","2","]","[","3","]">>, <<"c","o","u","n","t","(","a"," ","a","n","d"," ","b",")">>, <<"c","o","u","n","t","(","n","s",":","O","r","d","e","r","_","I","t","e","m","s",")">>,
     <<"c","o","n","t","a","i","n","s","(","@","x",","," ","'","f","o","o","'",")">>, <<"c","o","n","t","a","i","n","s","(","x",")">>, <<"c","o","n","c","a","t","(","'","a","'",","," ","b",")">>, <<"x"," ",">","="," ","1">>,
     <<"/","a","[","l","a","s","t","(",")","]","/","t","e","x","t","(",")">>, <<"/","a","[","@","x","=","'","1","'","]","/","@","o","r","d","e","r","I","d">>, <<"/","a","[","b","]","/","c">>, <<"$","v"," ",">"," ","1">>,
     <<" ","/","a","/","b"," ">>, <<"c","o","u","n","t","(",")">>, <<"f","(","(","(","(","x",")">>, <<"a"," ","A","N","D"," ","b">>, <<"s","u","m","(","x",")"," ","o","r"," ","y">>, <<"$","o","r","d","e","r">>,
     <<"a"," ","!","="," ","b">>, <<"a"," ","<","="," ","1">>, <<"a"," ","a","n","d"," ","b">>, <<"a"," ","o","r"," ","b"," ","a","n","d"," ","c">>, <<"/","a","[","o","r","d","e","r","]">>, <<"/","a","[","@","c","a","t","e","g","o","r","y","]">>, <<"/","a","[","n","o","t","e","s","]","/","b">>, <<"/","a","[","1","]">>}

Contexts ==
    {None, <<>>, [type |-> "condition"],
     [source |-> "", target |-> "", type |-> "mapping"],
     [source |-> "Order", target |-> "Invoice", type |-> "mapping", schema |-> "s.xsd"]}

\* the JSON bodies of POST /api/translate
TranslateBodies ==
    {None, <<>>, [context |-> <<>>]}
    \cup {[xpath |-> e] : e \in Samples}
    \cup {[xpath |-> e, context |-> c] : e \in Samples, c \in Contexts}
    \cup {[xpath |-> e, context |-> c] :
            e \in Generated, c \in {<<>>, [source |-> "", target |-> "Invoice"]}}

BatchItems ==
    {[expr |-> <<"/","/","O","r","d","e","r","/","C","u","s","t","o","m","e","r","/","@","i","d">>],
     [expr |-> <<"c","o","u","n","t","(","/","/","I","t","e","m","s","/","I","t","e","m",")">>, context |-> <<>>],
     [expr |-> <<"$","v"," ",">"," ","1">>, context |-> [type |-> "condition"]],
     [expr |-> <<"a","/","b"," ","="," ","1">>, context |-> [source |-> "", target |-> "", type |-> "mapping"]],
     [context |-> <<>>]}

\* the JSON bodies of POST /api/batch-translate
BatchBodies ==
    {None, <<>>} \cup {[xpaths |-> items] : items \in UNION {[1..k -> BatchItems] : k \in 0..MaxBatch}}

\* an element with no text, and one with text
Empty(tag, attrib) == [tag |-> tag, attrib |-> attrib]

Element(tag, attrib, text) == [tag |-> tag, attrib |-> attrib, text |-> text]

RootElements ==
    {Empty("process", [name |-> "OrderProcess"]),
     Element("process", <<>>, <<" ","$","s","t","a","r","t","/","x"," ">>)}

ChildElements ==
    {Empty("mapping", [expression |-> <<"/","a","/","b">>, source |-> "Order", target |-> "Invoice"]),
     Element("mapping", [expression |-> <<" ","/","a","/","b"," ">>, schemaRef |-> "s.xsd"], <<"/","a","/","b">>),
     Empty("mapping", [expression |-> <<"a","b","c">>, target |-> "Invoice"]),
     Empty("transition", [condition |-> <<"$","v"," ",">"," ","1">>, to |-> "End"]),
     Element("transition", [condition |-> <<" ","$","v"," ",">"," ","1">>, to |-> "End"], <<"$","v"," ",">"," ","1">>),
     Element("config", [name |-> "Log"], <<" ","/","a","/","b"," ">>),
     Element("config", <<>>, <<"c","o","u","n","t","(","/","/","I","t","e","m","s","/","I","t","e","m",")">>),
     Element("value", [name |-> "V"], <<"/","a","/","b">>),
     Element("value", <<>>, <<" ","$","v"," ",">"," ","1"," ">>),
     Element("item", <<>>, <<" "," ">>),
     Element("description", <<>>, <<" ","O","r","d","e","r"," ","f","l","o","w"," ">>),
     Empty("processVariables", [name |-> "v", type |-> "int"])}

\* the contents a file may have: well-formed documents, and one that is not
Documents ==
    {Malformed}
    \cup UNION {{File(<<r>> \o kids) : r \in RootElements, kids \in [1..k -> ChildElements]} :
                  k \in 0..(MaxElems - 1)}

\* the file a file_id names does not exist
Missing == [Missing |-> TRUE]

Requests ==
    {[route |-> "/api/translate", json |-> b] : b \in TranslateBodies}
    \cup {[route |-> "/api/batch-translate", json |-> b] : b \in BatchBodies}
    \cup {[route |-> "/api/parse", file |-> f] : f \in Documents \cup {Missing}}

\* jsonify(body), status
Response(status, body) == [status |-> status, body |-> body]

\* one entry of `returned`
Call(xpath, context, out) ==
    [xpath |-> xpath, context |-> context, after |-> out.context, value |-> out.value]

Init ==
    /\ translator = XPathTranslator
    /\ parser = XPathParser
    /\ pc = "idle"
    /\ request = None
    /\ returned = <<>>
    /\ parsed = None
    /\ response = None

\* a request arrives and is routed to its handler
Receive ==
    /\ pc = "idle"
    /\ \E r \in Requests : request' = r
    /\ pc' = "request"
    /\ UNCHANGED <<translator, parser, returned, parsed, response>>

\* translate_xpath: jsonify of the translation, or the except branch
translate_response(xpath_expr, translation) ==
    IF translation = Raised THEN Response(500, [error |-> "Translation failed"])
    ELSE Response(200, [xpath |-> xpath_expr,
                        plain_language |-> translation.description,
                        steps |-> translation.steps,
                        confidence |-> translation.confidence,
                        data_flow |-> translation.data_flow])

\* translate_xpath from the call of translator.translate on, out being the call
translate_xpath_try(xpath_expr, context, out) ==
    /\ translator' = out.self
    /\ returned' = <<Call(xpath_expr, context, out)>>
    /\ response' = translate_response(xpath_expr, out.value)

\* @app.route('/api/translate')
translate_xpath ==
    /\ pc = "request"
    /\ request.route = "/api/translate"
    /\ IF request.json = None \/ request.json = <<>> \/ "xpath" \notin DOMAIN request.json
       THEN /\ response' = Response(400, [error |-> "XPath expression required"])
            /\ UNCHANGED <<translator, returned>>
       ELSE translate_xpath_try(request.json.xpath, get(request.json, "context", <<>>),
                                call_translate(translator, request.json.xpath,
                                               get(request.json, "context", <<>>)))
    /\ pc' = "response"
    /\ UNCHANGED <<parser, request, parsed>>

\* what a loop over translate calls has come to: the instance, the calls made, the
\* results appended, and whether an exception left the loop
Loop(self, calls, results, failed) ==
    [self |-> self, calls |-> calls, results |-> results, failed |-> failed]

\* batch_translate: the dict appended to results
batch_result(item, translation) ==
    [xpath |-> item.expr,
     plain_language |-> translation.description,
     steps |-> translation.steps,
     confidence |-> translation.confidence]

\* the loop of batch_translate over data['xpaths']
RECURSIVE batch_loop(_, _, _, _)

\* batch_translate: one iteration from the call of translator.translate on
batch_step(items, calls, results, made, out) ==
    IF out.value = Raised THEN Loop(out.self, made, results, TRUE)
    ELSE batch_loop(out.self, Tail(items), made,
                    Append(results, batch_result(Head(items), out.value)))

\* batch_translate: one iteration for an item that has an 'expr', out being the call
batch_call(items, calls, results, context, out) ==
    batch_step(items, calls, results, Append(calls, Call(Head(items).expr, context, out)), out)

batch_loop(self, items, calls, results) ==
    IF items = <<>> THEN Loop(self, calls, results, FALSE)
    ELSE IF "expr" \notin DOMAIN Head(items) THEN Loop(self, calls, results, TRUE)
    ELSE batch_call(items, calls, results, get(Head(items), "context", <<>>),
                    call_translate(self, Head(items).expr,
                                   get(Head(items), "context", <<>>)))

\* batch_translate once the loop has ended
batch_translate_end(done) ==
    /\ translator' = done.self
    /\ returned' = done.calls
    /\ response' = IF done.failed
                   THEN Response(500, [error |-> "Batch translation failed"])
                   ELSE Response(200, [translations |-> done.results])

\* @app.route('/api/batch-translate')
batch_translate ==
    /\ pc = "request"
    /\ request.route = "/api/batch-translate"
    /\ IF request.json = None \/ request.json = <<>> \/ "xpaths" \notin DOMAIN request.json
       THEN /\ response' = Response(400, [error |-> "XPath list required"])
            /\ UNCHANGED <<translator, returned>>
       ELSE batch_translate_end(batch_loop(translator, request.json.xpaths, <<>>, <<>>))
    /\ pc' = "response"
    /\ UNCHANGED <<parser, request, parsed>>

\* app.parse_file: the dict appended to results
parse_result(xpath_item, translation) ==
    [id |-> xpath_item.id,
     xpath |-> xpath_item.expression,
     plain_language |-> translation.description,
     location |-> get(xpath_item, "location", ""),
     activity |-> get(xpath_item, "activity", ""),
     steps |-> translation.steps,
     confidence |-> translation.confidence,
     context |-> get(xpath_item, "context", <<>>)]

\* the loop of app.parse_file over parsed_data['xpaths']
RECURSIVE parse_loop(_, _, _, _)

\* app.parse_file: one iteration from the call of translator.translate on
parse_step(xpaths, results, made, out) ==
    IF out.value = Raised THEN Loop(out.self, made, results, TRUE)
    ELSE parse_loop(out.self, Tail(xpaths), made,
                    Append(results, parse_result(Head(xpaths), out.value)))

\* app.parse_file: one iteration, out being the call of translator.translate
parse_call(xpaths, calls, results, context, out) ==
    parse_step(xpaths, results,
               Append(calls, Call(Head(xpaths).expression, context, out)), out)

parse_loop(self, xpaths, calls, results) ==
    IF xpaths = <<>> THEN Loop(self, calls, results, FALSE)
    ELSE parse_call(xpaths, calls, results, get(Head(xpaths), "context", <<>>),
                    call_translate(self, Head(xpaths).expression,
                                   get(Head(xpaths), "context", <<>>)))

\* app.parse_file once the loop has ended
parse_file_end(parsed_data, done) ==
    /\ translator' = done.self
    /\ returned' = done.calls
    /\ response' = IF done.failed
                   THEN Response(500, [error |-> "Parsing failed"])
                   ELSE Response(200, [metadata |-> parsed_data.metadata,
                                       translations |-> done.results,
                                       total_count |-> Len(done.results)])

\* app.parse_file from the return of parser.parse_file on
parse_file_try(parsed_data) ==
    /\ parsed' = parsed_data
    /\ IF parsed_data = Raised
       THEN /\ response' = Response(500, [error |-> "Parsing failed"])
            /\ UNCHANGED <<translator, returned>>
       ELSE parse_file_end(parsed_data,
                           parse_loop(translator, parsed_data.xpaths, <<>>, <<>>))

\* @app.route('/api/parse/<file_id>'), app.parse_file
api_parse_file ==
    /\ pc = "request"
    /\ request.route = "/api/parse"
    /\ IF request.file = Missing
       THEN /\ response' = Response(404, [error |-> "File not found"])
            /\ UNCHANGED <<translator, returned, parsed>>
       ELSE parse_file_try(parse_file(parser, request.file))
    /\ pc' = "response"
    /\ UNCHANGED <<parser, request>>

\* the response is sent; the request's objects are dropped
Send ==
    /\ pc = "response"
    /\ pc' = "idle"
    /\ request' = None
    /\ returned' = <<>>
    /\ parsed' = None
    /\ response' = None
    /\ UNCHANGED <<translator, parser>>

Next ==
    \/ Receive
    \/ translate_xpath
    \/ batch_translate
    \/ api_parse_file
    \/ Send

Spec == Init /\ [][Next]_vars

(***************************************************************************)
(* Properties.  A property about translate speaks of every call a handler  *)
(* made (`returned`); one about an extraction pass speaks of what          *)
(* parser.parse_file returned (`parsed`) for the document of the request.  *)
(***************************************************************************)

\* the calls of translate the handler made that returned a dict
Returns == {k \in 1..Len(returned) : returned[k].value # Raised}

\* the expression of call k as translate sees it after xpath.strip()
Stripped(k) == strip(returned[k].xpath, Whitespace)

\* C1: for every expression string (empty, whitespace-only, mixing operators,
\* brackets and '$') and every context mapping (None included), translate
\* returns normally - no exception, no recursion beyond the limit - and the
\* description it returns is a non-empty string.
C1_TranslateReturns ==
    \A k \in 1..Len(returned) :
        /\ returned[k].value # Raised
        /\ returned[k].value.description # <<>>

\* C1 witness: translate returned for a whitespace-only expression, and in the
\* same state space for '[', '=' and '$' mixed
C1_Witness ==
    /\ pc = "response"
    /\ \E k \in Returns :
          /\ returned[k].xpath \in {<<" "," ">>, <<"$","[","=">>, <<"[","=","$">>}
          /\ returned[k].value.description # <<>>

ConditionTokens == {<<"=">>, <<"!","=">>, <<">">>, <<">","=">>, <<"<">>, <<"<","=">>, <<" ","a","n","d"," ">>, <<" ","o","r"," ">>}

\* the classification rule: first match in the order variable, condition,
\* function, selection
Classified(x) ==
    IF startswith(x, <<"$">>) THEN "variable"
    ELSE IF \E t \in ConditionTokens : contains(x, t) THEN "condition"
    ELSE IF \E i \in 1..Len(XPathTranslator.functions) :
               contains(x, XPathTranslator.functions[i][1] \o <<"(">>)
         THEN "function"
    ELSE "selection"

\* C3: the type translate returns is one of variable, condition, function,
\* selection, chosen by first match on the trimmed expression: a leading '$',
\* else a comparison operator or ' and ' or ' or ', else '<name>(' for a name of
\* the function table, else selection.
C3_TypeByFirstMatch ==
    \A k \in Returns :
        /\ returned[k].value.type \in {"variable", "condition", "function", "selection"}
        /\ returned[k].value.type = Classified(Stripped(k))

\* C3 witness: an expression that starts with '$' and holds '>' came back a variable
C3_Witness ==
    \E k \in Returns :
        /\ returned[k].xpath = <<"$","v"," ",">"," ","1">>
        /\ returned[k].value.type = "variable"

\* the comparison operator tokens
ComparisonTokens == {<<"=">>, <<"!","=">>, <<">">>, <<">","=">>, <<"<">>, <<"<","=">>}

\* the keys of the operator table
OperatorKeys == {<<"=">>, <<"!","=">>, <<">">>, <<">","=">>, <<"<">>, <<"<","=">>, <<"a","n","d">>, <<"o","r">>, <<"n","o","t">>}

\* the confidence rule over a set of tokens that rule out 'high'
Banded(x, tokens) ==
    IF count(x, "/") <= 2 /\ ~contains(x, <<"[">>) /\ ~\E t \in tokens : contains(x, t)
    THEN "high"
    ELSE IF count(x, "[") > 2 \/ count(x, "(") > 3 THEN "low"
    ELSE "medium"

C5_ComparisonOfVariable ==
    \A k \in Returns :
        /\ returned[k].xpath = <<"$","o","r","d","e","r","D","a","t","a","/","O","r","d","e","r","/","T","o","t","a","l","A","m","o","u","n","t"," ",">"," ","1","0","0","0">>
        /\ returned[k].context = [type |-> "condition"]
        => /\ returned[k].value.type = "condition"
           /\ returned[k].value.description
                = <<"C","h","e","c","k"," ","i","f"," ">>
                  \o _translate_operand(XPathTranslator, <<"$","o","r","d","e","r","D","a","t","a","/","O","r","d","e","r","/","T","o","t","a","l","A","m","o","u","n","t">>)
                  \o <<" ","i","s"," ","g","r","e","a","t","e","r"," ","t","h","a","n"," ","1","0","0","0">>

\* the argument text of an expression of the form count(<path>), <path> not empty
\* and free of ')'; the empty sequence for any other expression
CountArgument(x) ==
    IF /\ startswith(x, <<"c","o","u","n","t","(">>)
       /\ endswith(x, <<")">>)
       /\ Len(x) > 7
       /\ ~contains(SubSeq(x, 7, Len(x) - 1), <<")">>)
    THEN SubSeq(x, 7, Len(x) - 1)
    ELSE <<>>

\* C6 as stated: 'count(<path>)' with no comparison operator returns type
\* 'function' and 'Count the number of ' followed by the humanized argument;
\* 'count(//Items/Item)' gives exactly 'Count the number of items item' and
\* confidence 'medium'.
C6_CountAsStated ==
    \A k \in Returns :
        /\ CountArgument(Stripped(k)) # <<>>
           /\ ~(\E t \in ComparisonTokens : contains(Stripped(k), t))
           => returned[k].value.type = "function"
        /\ Stripped(k) = <<"c","o","u","n","t","(","/","/","I","t","e","m","s","/","I","t","e","m",")">>
           => /\ returned[k].value.description = <<"C","o","u","n","t"," ","t","h","e"," ","n","u","m","b","e","r"," ","o","f"," ","i","t","e","m","s"," ","i","t","e","m">>
              /\ returned[k].value.confidence = "medium"

\* C6 amended: 'count(<path>)', <path> not empty and with no ')', no comparison
\* operator and neither ' and ' nor ' or ', returns type 'function' and 'Count the
\* number of ' followed by the humanized argument, in which '/' stays as it is;
\* 'count(//Items/Item)' gives exactly 'Count the number of //items/item' and
\* confidence 'medium'.
C6_CountHumanized ==
    \A k \in Returns :
        /\ CountArgument(Stripped(k)) # <<>>
           /\ ~(\E t \in ConditionTokens : contains(Stripped(k), t))
           => /\ returned[k].value.type = "function"
              /\ returned[k].value.description
                   = <<"C","o","u","n","t"," ","t","h","e"," ","n","u","m","b","e","r"," ","o","f"," ">>
                     \o _humanize_name(XPathTranslator, CountArgument(Stripped(k)))
        /\ Stripped(k) = <<"c","o","u","n","t","(","/","/","I","t","e","m","s","/","I","t","e","m",")">>
           => /\ returned[k].value.description = <<"C","o","u","n","t"," ","t","h","e"," ","n","u","m","b","e","r"," ","o","f"," ","/","/","i","t","e","m","s","/","i","t","e","m">>
              /\ returned[k].value.confidence = "medium"
        /\ Stripped(k) = <<"c","o","u","n","t","(","n","s",":","O","r","d","e","r","_","I","t","e","m","s",")">>
           => returned[k].value.description = <<"C","o","u","n","t"," ","t","h","e"," ","n","u","m","b","e","r"," ","o","f"," ","o","r","d","e","r"," ","i","t","e","m","s">>

\* C6 witness: count(//Items/Item) came back with the slashes kept
C6_Witness ==
    \E k \in Returns :
        /\ returned[k].xpath = <<"c","o","u","n","t","(","/","/","I","t","e","m","s","/","I","t","e","m",")">>
        /\ returned[k].value.type = "function"
        /\ returned[k].value.description = <<"C","o","u","n","t"," ","t","h","e"," ","n","u","m","b","e","r"," ","o","f"," ","/","/","i","t","e","m","s","/","i","t","e","m">>

\* the non-empty segments of an expression split at '/'
Segments(x) == NonEmpty(split(x, <<"/">>))

\* the segments of x, each rendered as the selection renderer renders a part
Rendered(segs) == [i \in 1..Len(segs) |-> readable_part(XPathTranslator, segs[i])]

\* steps has one entry per segment, numbered from 'Step 1' in order
Numbered(steps, n) ==
    /\ Len(steps) = n
    /\ \A i \in 1..n : startswith(steps[i], <<"S","t","e","p"," ">> \o str(i) \o <<":"," ">>)

\* the description of a path of two or more segments
Navigates(description, segs) ==
    /\ description = <<"N","a","v","i","g","a","t","e"," ","t","o",":"," ">> \o join(<<" ","→"," ">>, Rendered(segs))
    /\ startswith(segs[Len(segs)], <<"@">>) /\ ~contains(segs[Len(segs)], <<"[">>)
       => endswith(description,
                   <<" ","→"," ","t","h","e"," ">>
                   \o _humanize_name(XPathTranslator,
                                     SubSeq(segs[Len(segs)], 2, Len(segs[Len(segs)])))
                   \o <<" ","a","t","t","r","i","b","u","t","e">>)

\* C7: for a selection whose '/'-split leaves n >= 2 non-empty segments, the
\* description is 'Navigate to: ' and the n rendered segments joined by ' → ' in
\* order, a final '@name' renders as 'the <humanized name> attribute', and steps
\* has n entries numbered 'Step 1' to 'Step n'; '//Order/Customer/@id' is a
\* selection whose description ends in 'the id attribute', with 3 steps.
C7_NavigateTo ==
    \A k \in Returns :
        /\ returned[k].value.type = "selection" /\ Len(Segments(Stripped(k))) >= 2
           => /\ Navigates(returned[k].value.description, Segments(Stripped(k)))
              /\ Numbered(returned[k].value.steps, Len(Segments(Stripped(k))))
        /\ Stripped(k) = <<"/","/","O","r","d","e","r","/","C","u","s","t","o","m","e","r","/","@","i","d">>
           => /\ returned[k].value.type = "selection"
              /\ startswith(returned[k].value.description, <<"N","a","v","i","g","a","t","e"," ","t","o",":"," ">>)
              /\ endswith(returned[k].value.description, <<"t","h","e"," ","i","d"," ","a","t","t","r","i","b","u","t","e">>)
              /\ Len(returned[k].value.steps) = 3

\* C7 witness: //Order/Customer/@id came back a selection with three steps
C7_Witness ==
    \E k \in Returns :
        /\ returned[k].xpath = <<"/","/","O","r","d","e","r","/","C","u","s","t","o","m","e","r","/","@","i","d">>
        /\ returned[k].value.type = "selection"
        /\ Len(returned[k].value.steps) = 3
        /\ returned[k].value.description
             = <<"N","a","v","i","g","a","t","e"," ","t","o",":"," ","o","r","d","e","r"," ","→"," ","c","u","s","t","o","m","e","r"," ","→"," ","t","h","e"," ","i","d"," ","a","t","t","r","i","b","u","t","e">>

\* an extraction pass has returned its list for the document of the request
Extracted == pc = "response" /\ parsed # None /\ parsed # Raised

\* in the document els, element i is a mapping below the root whose expression
\* attribute is the trimmed, expression-like direct text of another element j
SameText(els, i, j) ==
    /\ i # 1
    /\ i # j
    /\ els[i].tag = "mapping"
    /\ "expression" \in DOMAIN els[i].attrib
    /\ truthy_text(els[j])
    /\ els[i].attrib.expression = strip(els[j].text, Whitespace)
    /\ _is_xpath(XPathParser, els[i].attrib.expression)

\* the records of the list xpaths with that expression and that location
Records(xpaths, expression, location) ==
    {r \in 1..Len(xpaths) : /\ xpaths[r].expression = expression
                            /\ xpaths[r].location = location}

\* C8 as stated: a text that is both the expression attribute of a mapping and
\* the direct text of another element yields two records, one with location
\* 'Mapper' and one from the text scan with that element's tag as location.
C8_TwoRecords ==
    Extracted =>
        \A i, j \in 1..Len(request.file.elements) :
            SameText(request.file.elements, i, j)
            => /\ Records(parsed.xpaths, request.file.elements[i].attrib.expression,
                          "Mapper") # {}
               /\ Records(parsed.xpaths, request.file.elements[i].attrib.expression,
                          request.file.elements[j].tag) # {}

\* C8 amended: a text that is both the expression attribute of a mapping, exactly
\* as written there, and the trimmed direct text of another element yields the
\* record with location 'Mapper' and no record from the text scan: the scan skips
\* a text that is already the expression of a record in the list.
C8_TextScanSkips ==
    Extracted =>
        \A i, j \in 1..Len(request.file.elements) :
            SameText(request.file.elements, i, j)
            => /\ Records(parsed.xpaths, request.file.elements[i].attrib.expression,
                          "Mapper") # {}
               /\ Records(parsed.xpaths, request.file.elements[i].attrib.expression,
                          request.file.elements[j].tag) = {}

\* C8 witness: a mapping with expression /a/b and a value element with text /a/b
\* gave one record for /a/b
C8_Witness ==
    /\ Extracted
    /\ \E i, j \in 1..Len(request.file.elements) :
          /\ SameText(request.file.elements, i, j)
          /\ request.file.elements[j].tag = "value"
    /\ Cardinality({r \in 1..Len(parsed.xpaths) : parsed.xpaths[r].expression = <<"/","a","/","b">>}) = 1

\* C9: for an expression whose type is not 'selection' the steps translate
\* returns are empty.
C9_StepsOnlyForSelection ==
    \A k \in Returns :
        returned[k].value.type # "selection" => returned[k].value.steps = <<>>

\* context.key when it is present and not empty, 'Unknown' otherwise
OrUnknown(context, key) ==
    IF context # None /\ key \in DOMAIN context /\ context[key] # ""
    THEN context[key]
    ELSE "Unknown"

\* C10: data_flow.source is the context's source when present and non-empty and
\* 'Unknown' otherwise (absent key or empty string), likewise data_flow.target,
\* and data_flow.operation is the type of the result.
C10_DataFlow ==
    \A k \in Returns :
        /\ returned[k].value.data_flow.source = OrUnknown(returned[k].context, "source")
        /\ returned[k].value.data_flow.target = OrUnknown(returned[k].context, "target")
        /\ returned[k].value.data_flow.operation = returned[k].value.type

\* C11: every record of the list one extraction pass returns, from any of the
\* four strategies, has an expression that is not empty and has no leading or
\* trailing whitespace (it equals its own trimmed form).
C11_ExpressionTrimmed ==
    Extracted =>
        \A r \in 1..Len(parsed.xpaths) :
            /\ parsed.xpaths[r].expression # <<>>
            /\ parsed.xpaths[r].expression = strip(parsed.xpaths[r].expression, Whitespace)

\* the six comparison operators, each with its phrase
ComparisonPhrases ==
    <<<<<<"=">>, <<"e","q","u","a","l","s">>>>, <<<<"!","=">>, <<"d","o","e","s"," ","n","o","t"," ","e","q","u","a","l">>>>, <<<<">">>, <<"i","s"," ","g","r","e","a","t","e","r"," ","t","h","a","n">>>>,
      <<<<">","=">>, <<"i","s"," ","g","r","e","a","t","e","r"," ","t","h","a","n"," ","o","r"," ","e","q","u","a","l"," ","t","o">>>>, <<<<"<">>, <<"i","s"," ","l","e","s","s"," ","t","h","a","n">>>>,
      <<<<"<","=">>, <<"i","s"," ","l","e","s","s"," ","t","h","a","n"," ","o","r"," ","e","q","u","a","l"," ","t","o">>>>>>

\* an operand of a comparison: it holds no key of the operator table and no '!'
Operand(s) == ~contains(s, <<"!">>) /\ ~\E t \in OperatorKeys : contains(s, t)

\* x is 'L op R' with op at position i and both sides operands
Compares(x, op, i) ==
    /\ i + Len(op) - 1 <= Len(x)
    /\ SubSeq(x, i, i + Len(op) - 1) = op
    /\ Operand(SubSeq(x, 1, i - 1))
    /\ Operand(SubSeq(x, i + Len(op), Len(x)))

\* 'Check if <render(L)> <phrase> <render(R)>' for x split around position i
CheckIf(x, op, phrase, i) ==
    <<"C","h","e","c","k"," ","i","f"," ">>
    \o _translate_operand(XPathTranslator, SubSeq(x, 1, i - 1))
    \o <<" ">> \o phrase \o <<" ">>
    \o _translate_operand(XPathTranslator, SubSeq(x, i + Len(op), Len(x)))

\* the description of x is the one stated for each way x reads as 'L op R'
ComparisonAsStated(x, description, ops) ==
    \A p \in ops : \A i \in 1..Len(x) :
        Compares(x, ComparisonPhrases[p][1], i)
        => description = CheckIf(x, ComparisonPhrases[p][1], ComparisonPhrases[p][2], i)

\* C12: for a condition 'L op R', op one of the six comparison operators and L
\* and R free of operator tokens, the description is 'Check if <render(L)>
\* <phrase(op)> <render(R)>' with the phrase of that operator (= equals, != does
\* not equal, > is greater than, >= is greater than or equal to, < is less than,
\* <= is less than or equal to) and the operands the text before and after it.
C12_OwnPhrase ==
    \A k \in Returns :
        returned[k].value.type = "condition"
        => ComparisonAsStated(Stripped(k), returned[k].value.description, 1..6)

\* the rendering stated for a condition text: with a comparison operator, the
\* comparison rendering; else split at ' and ' (any letter case) and joined with
\* ' AND '; else split at ' or ' and joined with ' OR '; else the fallback
RECURSIVE LogicalAsStated(_)

\* each sub-condition trimmed and rendered as a condition
SubConditions(pieces) ==
    [k \in 1..Len(pieces) |-> LogicalAsStated(strip(pieces[k], Whitespace))]

LogicalAsStated(x) ==
    IF \E t \in ComparisonTokens : contains(x, t)
    THEN _translate_condition(XPathTranslator, x, <<>>)
    ELSE IF contains(lower(x), <<" ","a","n","d"," ">>)
    THEN join(<<" ","A","N","D"," ">>, SubConditions(re_split(x, <<"a","n","d">>)))
    ELSE IF contains(lower(x), <<" ","o","r"," ">>)
    THEN join(<<" ","O","R"," ">>, SubConditions(re_split(x, <<"o","r">>)))
    ELSE <<"E","v","a","l","u","a","t","e"," ","c","o","n","d","i","t","i","o","n",":"," ">> \o x

\* C13: a condition with no comparison operator but with ' and ' (any letter
\* case) is rendered as its sub-conditions, split at that token and each rendered
\* as a condition, joined with ' AND ' (likewise ' or ' and ' OR '); a condition
\* text with neither renders as 'Evaluate condition: <raw expression>'.
C13_LogicalSplit ==
    \A k \in Returns :
        /\ returned[k].value.type = "condition"
        /\ ~\E t \in ComparisonTokens : contains(Stripped(k), t)
        => returned[k].value.description = LogicalAsStated(Stripped(k))

\* the rendering stated for a predicate, `tokens` being the operator tokens that
\* make it a condition
PredicateAsStated(predicate, tokens) ==
    IF isdigit(predicate) THEN <<"p","o","s","i","t","i","o","n"," ">> \o predicate
    ELSE IF predicate = <<"l","a","s","t","(",")">> THEN <<"t","h","e"," ","l","a","s","t"," ","i","t","e","m">>
    ELSE IF \E t \in tokens : contains(predicate, t)
         THEN _translate_condition(XPathTranslator, predicate, <<>>)
    ELSE predicate

\* a path segment as the selection renders it, its predicate rendered as stated
SegmentAsStated(seg, tokens) ==
    IF contains(seg, <<"[">>)
    THEN _humanize_name(XPathTranslator, split1(seg, <<"[">>)[1]) \o <<" ","w","h","e","r","e"," ">>
         \o PredicateAsStated(rstrip(split1(seg, <<"[">>)[2], {"]"}), tokens)
    ELSE readable_part(XPathTranslator, seg)

\* the description of a selection with these segments, predicates as stated
SelectionAsStated(segs, tokens) ==
    selection_text([i \in 1..Len(segs) |-> SegmentAsStated(segs[i], tokens)])

\* C14: the predicate of a path segment renders as 'position <n>' when it is all
\* digits, 'the last item' when it is 'last()', as a condition when it holds a
\* comparison operator token, and as the raw predicate text in every other case
\* (a bare name such as '@category' or 'order').
C14_PredicateRaw ==
    \A k \in Returns :
        /\ returned[k].value.type = "selection"
        /\ Segments(Stripped(k)) # <<>>
        => returned[k].value.description
             = SelectionAsStated(Segments(Stripped(k)), ComparisonTokens)

\* the number of records the mapper, transition and config loops emit for a
\* document: the records after them in the list are those of the text scan
Before(root) ==
    Len(extract_configs(XPathParser, findall(root, "config"),
          extract_transitions(XPathParser, findall(root, "transition"),
            extract_mappers(XPathParser, findall(root, "mapping"), <<>>))))

\* in the list xpaths, every record after the first n has an expression no other
\* record of the list has
ScanUnique(xpaths, n) ==
    \A r \in (n + 1)..Len(xpaths) : \A q \in 1..Len(xpaths) :
        q # r => xpaths[q].expression # xpaths[r].expression

\* C15: in the list of one extraction pass, the expression of every record of
\* the text scan differs from the expression of every record before it (of any
\* strategy) and after it, so no two text-scan records share an expression and
\* location; the first three strategies may repeat an expression.
C15_ScanUnique ==
    Extracted => ScanUnique(parsed.xpaths, Before(request.file.elements))

\* the list xpaths has a record of the text scan after its first n records, two
\* of which have the same expression
ScanAfterRepeat(xpaths, n) ==
    /\ Len(xpaths) > n
    /\ \E q1, q2 \in 1..n :
          q1 # q2 /\ xpaths[q1].expression = xpaths[q2].expression

\* C15 witness: a pass returned a text-scan record after two records of the
\* first three strategies that have the same expression
C15_Witness ==
    /\ Extracted
    /\ ScanAfterRepeat(parsed.xpaths, Before(request.file.elements))

====
